---------------------------- MODULE Spec2Model ----------------------------
(***************************************************************************)
(* Model of the Java release updater (src/updater/src):                    *)
(*   - the two version comparators (main.rs Release, adoptium.rs           *)
(*     VersionData),                                                       *)
(*   - get_release of both vendors (adoptium.rs, semeru.rs),               *)
(*   - get_releases of both vendors,                                       *)
(*   - the legacy slug merge of main.rs.                                   *)
(* Strings that the code inspects (openjdk_version) are sequences of byte  *)
(* values; strings it only copies or tests for equality are TLA+ strings.  *)
(***************************************************************************)
EXTENDS Integers, Sequences, FiniteSets, TLC

VARIABLES
    lhs, rhs, cmpResult,
    fVendor, fVersion, fType, fResp, fResult,
    vendor, available, bpc, idx, output, called, ret,
    versions, pending, resolved, slugs, slugsLeft, sources, slugsLeftB, sourcesB, lpc

cmpVars == <<lhs, rhs, cmpResult>>
fetchVars == <<fVendor, fVersion, fType, fResp, fResult>>
buildVars == <<vendor, available, bpc, idx, output, called, ret>>
legacyVars == <<versions, pending, resolved, slugs, slugsLeft, sources, slugsLeftB, sourcesB, lpc>>
vars == <<cmpVars, fetchVars, buildVars, legacyVars>>

-----------------------------------------------------------------------------
(* Bounds *)

\* longest openjdk_version string drawn for the comparators
MaxStrLen == 2
\* longest page of candidates the transport returns to get_release
MaxPage == 3
\* longest available_releases list of a summary
MaxAvail == 2
\* most releases get_all_versions returns to main
MaxCandidates == 3

-----------------------------------------------------------------------------
(* Strings as byte sequences *)

\* '-' , the separator of str::split in main.rs
Hyphen == 45

Chars == {Hyphen, 97}

\* "beta"
Beta == <<98, 101, 116, 97>>

BoundedSeq(S, n) == UNION {[1..k -> S] : k \in 0..n}

VersionStrings == BoundedSeq(Chars, MaxStrLen) \cup {Beta}

\* <usize as PartialOrd>::partial_cmp, <u64 as PartialOrd>::partial_cmp
NumCmp(x, y) == IF x < y THEN "Less" ELSE IF x > y THEN "Greater" ELSE "Equal"

\* <str as PartialOrd>::partial_cmp: bytewise lexicographic, a proper prefix is less
RECURSIVE StrCmp(_, _)
StrCmp(x, y) ==
    IF x = <<>> THEN (IF y = <<>> THEN "Equal" ELSE "Less")
    ELSE IF y = <<>> THEN "Greater"
    ELSE IF Head(x) < Head(y) THEN "Less"
    ELSE IF Head(x) > Head(y) THEN "Greater"
    ELSE StrCmp(Tail(x), Tail(y))

\* s.split('-').collect::<Vec<_>>(): the segments between hyphens, never empty
RECURSIVE Split(_)
Split(s) ==
    IF \A i \in 1..Len(s) : s[i] # Hyphen THEN <<s>>
    ELSE LET i == CHOOSE j \in 1..Len(s) :
                     s[j] = Hyphen /\ \A k \in 1..(j - 1) : s[k] # Hyphen
         IN <<SubSeq(s, 1, i - 1)>> \o Split(SubSeq(s, i + 1, Len(s)))

\* x[x.len() - 1]
LastSegment(s) == Split(s)[Len(Split(s))]

-----------------------------------------------------------------------------
(* The comparators *)

\* impl PartialOrd for Release (main.rs): fields in the order the code visits them
ReleasePartialCmp(a, b) ==
    IF NumCmp(a.build, b.build) # "Equal" THEN NumCmp(a.build, b.build)
    ELSE IF NumCmp(a.major, b.major) # "Equal" THEN NumCmp(a.major, b.major)
    ELSE IF NumCmp(a.minor, b.minor) # "Equal" THEN NumCmp(a.minor, b.minor)
    ELSE IF StrCmp(a.openjdk_version, b.openjdk_version) # "Equal"
         THEN StrCmp(a.openjdk_version, b.openjdk_version)
    ELSE IF NumCmp(a.security, b.security) # "Equal" THEN NumCmp(a.security, b.security)
    ELSE IF StrCmp(a.openjdk_version, b.openjdk_version) = "Equal" THEN "Equal"
    ELSE StrCmp(LastSegment(a.openjdk_version), LastSegment(b.openjdk_version))

\* impl PartialOrd for VersionData (adoptium.rs)
VersionDataPartialCmp(a, b) ==
    IF NumCmp(a.major, b.major) # "Equal" THEN NumCmp(a.major, b.major)
    ELSE IF NumCmp(a.minor, b.minor) # "Equal" THEN NumCmp(a.minor, b.minor)
    ELSE IF NumCmp(a.security, b.security) # "Equal" THEN NumCmp(a.security, b.security)
    ELSE NumCmp(a.build, b.build)

\* #[derive(PartialEq, Eq)] on Release (main.rs) and VersionData: every field
DerivedEq(a, b) ==
    /\ a.build = b.build
    /\ a.major = b.major
    /\ a.minor = b.minor
    /\ a.openjdk_version = b.openjdk_version
    /\ a.security = b.security
    /\ a.semver = b.semver

Key(ma, mi, se, bu, ov, sv) ==
    [major |-> ma, minor |-> mi, security |-> se, build |-> bu,
     openjdk_version |-> ov, semver |-> sv]

\* the keys the comparators are applied to
CmpKeys ==
    {Key(ma, mi, se, bu, ov, sv) :
        ma \in {11, 17}, mi \in {0, 1}, se \in {1, 2}, bu \in {9, 10},
        ov \in VersionStrings, sv \in {"sv0", "sv1"}}

NoCmp == [by |-> "none"]

CmpIdle == lhs = Key(0, 0, 0, 0, <<>>, "") /\ rhs = Key(0, 0, 0, 0, <<>>, "") /\ cmpResult = NoCmp

\* a.partial_cmp(&b) and a == b on two main.rs Releases
CompareRelease ==
    /\ cmpResult = NoCmp
    /\ cmpResult' = [by |-> "main", ord |-> ReleasePartialCmp(lhs, rhs),
                     rev |-> ReleasePartialCmp(rhs, lhs), eq |-> DerivedEq(lhs, rhs)]
    /\ UNCHANGED <<lhs, rhs, fetchVars, buildVars, legacyVars>>

\* a.partial_cmp(&b) and a == b on two adoptium.rs VersionData
CompareVersionData ==
    /\ cmpResult = NoCmp
    /\ cmpResult' = [by |-> "adoptium", ord |-> VersionDataPartialCmp(lhs, rhs),
                     rev |-> VersionDataPartialCmp(rhs, lhs), eq |-> DerivedEq(lhs, rhs)]
    /\ UNCHANGED <<lhs, rhs, fetchVars, buildVars, legacyVars>>


-----------------------------------------------------------------------------
(* get_release (adoptium.rs, semeru.rs) *)

FeatureVersions == {11, 17, 21}

ReleaseTypes == {"ga", "ea"}

\* adoptium::Release, reduced to the fields the updater reads
Release(k, t) == [version_data |-> k, release_type |-> t]

\* the releases upstream may list for feature version v
FetchReleases(v, t) ==
    {Release(Key(v, 0, se, bu, ov, "sv0"), t) :
        se \in {1, 2}, bu \in {9, 10}, ov \in {<<>>, Beta}}

\* what client.recv_json(request) yields: a failure, or a page (possibly empty)
TransportErr == [ok |-> FALSE]

Responses(v, t) ==
    {TransportErr} \cup
    {[ok |-> TRUE, page |-> p] : p \in BoundedSeq(FetchReleases(v, t), MaxPage)}

Ok(x) == [tag |-> "Ok", value |-> x]

Err(m) == [tag |-> "Err", msg |-> m]

\* impl Ord for Release (adoptium.rs): self.version_data.cmp(&other.version_data)
ReleaseCmp(r1, r2) == VersionDataPartialCmp(r1.version_data, r2.version_data)

\* Vec::sort: stable, so x goes after every element that is not greater than it
InsertSorted(t, x) ==
    LET k == Cardinality({i \in 1..Len(t) : ReleaseCmp(t[i], x) # "Greater"})
    IN SubSeq(t, 1, k) \o <<x>> \o SubSeq(t, k + 1, Len(t))

RECURSIVE SortReleases(_)
SortReleases(s) ==
    IF s = <<>> THEN <<>>
    ELSE InsertSorted(SortReleases(SubSeq(s, 1, Len(s) - 1)), s[Len(s)])

\* a get_release that answers an empty page with a zero-valued release
AdoptiumGetReleaseDefault(resp) ==
    IF ~resp.ok THEN Err("Failed to get release information from adoptium")
    ELSE LET releases == SortReleases(resp.page)
         IN IF releases # <<>> THEN Ok(releases[Len(releases)])
            ELSE Ok(Release(Key(0, 0, 0, 0, <<>>, ""), ""))

\* adoptium::get_release from the transport's answer on
AdoptiumGetRelease(resp) ==
    IF ~resp.ok THEN Err("Failed to get release information from adoptium")
    ELSE LET releases == SortReleases(resp.page)
         IN IF releases # <<>> THEN Ok(releases[Len(releases)])
            ELSE Err("Adoptium endpoint did not return any valid releases")

\* semeru::get_release from the transport's answer on
SemeruGetRelease(resp) ==
    IF ~resp.ok THEN Err("Failed to get release information from semeru")
    ELSE LET releases == SortReleases(resp.page)
         IN IF releases # <<>> THEN Ok(releases[Len(releases)])
            ELSE Err("Semeru endpoint did not return any valid releases")

NoResult == [tag |-> "none"]

FetchIdle ==
    /\ fVendor = "none" /\ fVersion = 0 /\ fType = "none"
    /\ fResp = TransportErr /\ fResult = NoResult

\* one call of adoptium::get_release(client, fVersion, fType)
AdoptiumFetch ==
    /\ fVendor = "adoptium" /\ fResult = NoResult
    /\ \E resp \in Responses(fVersion, fType) :
          /\ fResp' = resp
          /\ fResult' = AdoptiumGetRelease(resp)
    /\ UNCHANGED <<fVendor, fVersion, fType, cmpVars, buildVars, legacyVars>>

\* one call of semeru::get_release(client, fVersion, fType)
SemeruFetch ==
    /\ fVendor = "semeru" /\ fResult = NoResult
    /\ \E resp \in Responses(fVersion, fType) :
          /\ fResp' = resp
          /\ fResult' = SemeruGetRelease(resp)
    /\ UNCHANGED <<fVendor, fVersion, fType, cmpVars, buildVars, legacyVars>>

-----------------------------------------------------------------------------
(* get_releases (adoptium.rs, semeru.rs) *)

\* the summaries upstream may answer: AvailableReleases, reduced to the fields read
Summaries ==
    {[available_releases |-> ar, most_recent_feature_version |-> mr] :
        ar \in BoundedSeq(FeatureVersions, MaxAvail), mr \in FeatureVersions}

\* the answers the transport gives get_release while a catalog is built
BuildResponses(v, t) ==
    {TransportErr} \cup
    {[ok |-> TRUE, page |-> p] :
        p \in BoundedSeq({Release(Key(v, 0, 1, bu, <<>>, "sv0"), t) : bu \in {9, 10}}, 2)}

EmptyMap == <<>>

\* HashMap::insert / BTreeMap::insert
Insert(m, k, v) == [x \in (DOMAIN m) \cup {k} |-> IF x = k THEN v ELSE m[x]]

\* HashMap::contains_key / BTreeMap::contains_key
ContainsKey(m, k) == k \in DOMAIN m

\* Result::with_context: the error wrapped with the version it was raised for
WithContext(e, m, v) == [tag |-> "Err", msg |-> m, version |-> v, cause |-> e.msg]

Call(v, t, r) == [version |-> v, release_type |-> t, result |-> r]

BuildIdle ==
    /\ vendor = "none"
    /\ available = [available_releases |-> <<>>, most_recent_feature_version |-> 0]
    /\ bpc = "idle" /\ idx = 0 /\ output = EmptyMap /\ called = <<>> /\ ret = NoResult

\* adoptium::get_releases, get_available_releases fails: `?` returns the error
AdoptiumListFail ==
    /\ vendor = "adoptium" /\ bpc = "start"
    /\ bpc' = "failed"
    /\ ret' = Err("Failed to list adoptium releases")
    /\ UNCHANGED <<vendor, available, idx, output, called, cmpVars, fetchVars, legacyVars>>

\* adoptium::get_releases, get_available_releases succeeds; output = HashMap::new()
AdoptiumListOk ==
    /\ vendor = "adoptium" /\ bpc = "start"
    /\ bpc' = "ga" /\ idx' = 1 /\ output' = EmptyMap
    /\ UNCHANGED <<vendor, available, called, ret, cmpVars, fetchVars, legacyVars>>

\* a GA loop that skips a version whose fetch failed instead of returning the error
AdoptiumGaSkipsFailure ==
    /\ vendor = "adoptium" /\ bpc = "ga"
    /\ idx <= Len(available.available_releases)
    /\ LET version == available.available_releases[idx] IN
       \E resp \in BuildResponses(version, "ga") :
          LET r == AdoptiumGetRelease(resp) IN
          /\ called' = Append(called, Call(version, "ga", r))
          /\ idx' = idx + 1
          /\ output' = IF r.tag = "Err" THEN output ELSE Insert(output, version, r.value)
          /\ UNCHANGED <<bpc, ret>>
    /\ UNCHANGED <<vendor, available, cmpVars, fetchVars, legacyVars>>

\* adoptium::get_releases, one turn of the loop over available.available_releases
AdoptiumGa ==
    /\ vendor = "adoptium" /\ bpc = "ga"
    /\ idx <= Len(available.available_releases)
    /\ LET version == available.available_releases[idx] IN
       \E resp \in BuildResponses(version, "ga") :
          LET r == AdoptiumGetRelease(resp) IN
          /\ called' = Append(called, Call(version, "ga", r))
          /\ IF r.tag = "Err"
             THEN /\ bpc' = "failed"
                  /\ ret' = WithContext(r, "Failed to get version from the adoptium archive",
                                        version)
                  /\ UNCHANGED <<idx, output>>
             ELSE /\ output' = Insert(output, version, r.value)
                  /\ idx' = idx + 1
                  /\ UNCHANGED <<bpc, ret>>
    /\ UNCHANGED <<vendor, available, cmpVars, fetchVars, legacyVars>>

\* adoptium::get_releases, the loop is over and the latest version is present
AdoptiumReturn ==
    /\ vendor = "adoptium" /\ bpc = "ga"
    /\ idx > Len(available.available_releases)
    /\ ContainsKey(output, available.most_recent_feature_version)
    /\ bpc' = "done"
    /\ ret' = Ok(output)
    /\ UNCHANGED <<vendor, available, idx, output, called, cmpVars, fetchVars, legacyVars>>

\* an EA fallback that runs whether or not the latest version is already present
AdoptiumEaAlways ==
    /\ vendor = "adoptium" /\ bpc = "ga"
    /\ idx > Len(available.available_releases)
    /\ LET version == available.most_recent_feature_version IN
       \E resp \in BuildResponses(version, "ea") :
          LET r == AdoptiumGetRelease(resp) IN
          /\ called' = Append(called, Call(version, "ea", r))
          /\ IF r.tag = "Err"
             THEN /\ bpc' = "failed"
                  /\ ret' = WithContext(r,
                               "Failed to get version (latest) from the adoptium archive",
                               version)
                  /\ UNCHANGED output
             ELSE /\ output' = Insert(output, version, r.value)
                  /\ bpc' = "done"
                  /\ ret' = Ok(output')
    /\ UNCHANGED <<vendor, available, idx, cmpVars, fetchVars, legacyVars>>

\* an EA fallback whose failure is logged and not returned
AdoptiumEaNonFatal ==
    /\ vendor = "adoptium" /\ bpc = "ga"
    /\ idx > Len(available.available_releases)
    /\ ~ContainsKey(output, available.most_recent_feature_version)
    /\ LET version == available.most_recent_feature_version IN
       \E resp \in BuildResponses(version, "ea") :
          LET r == AdoptiumGetRelease(resp) IN
          /\ called' = Append(called, Call(version, "ea", r))
          /\ output' = IF r.tag = "Err" THEN output ELSE Insert(output, version, r.value)
          /\ bpc' = "done"
          /\ ret' = Ok(output')
    /\ UNCHANGED <<vendor, available, idx, cmpVars, fetchVars, legacyVars>>

\* adoptium::get_releases, the loop is over and the latest version is absent
AdoptiumEa ==
    /\ vendor = "adoptium" /\ bpc = "ga"
    /\ idx > Len(available.available_releases)
    /\ ~ContainsKey(output, available.most_recent_feature_version)
    /\ LET version == available.most_recent_feature_version IN
       \E resp \in BuildResponses(version, "ea") :
          LET r == AdoptiumGetRelease(resp) IN
          /\ called' = Append(called, Call(version, "ea", r))
          /\ IF r.tag = "Err"
             THEN /\ bpc' = "failed"
                  /\ ret' = WithContext(r,
                               "Failed to get version (latest) from the adoptium archive",
                               version)
                  /\ UNCHANGED output
             ELSE /\ output' = Insert(output, version, r.value)
                  /\ bpc' = "done"
                  /\ ret' = Ok(output')
    /\ UNCHANGED <<vendor, available, idx, cmpVars, fetchVars, legacyVars>>

\* semeru::get_releases, get_available_releases fails: `?` returns the error
SemeruListFail ==
    /\ vendor = "semeru" /\ bpc = "start"
    /\ bpc' = "failed"
    /\ ret' = Err("Failed to list semeru releases")
    /\ UNCHANGED <<vendor, available, idx, output, called, cmpVars, fetchVars, legacyVars>>

\* semeru::get_releases, get_available_releases succeeds; output = BTreeMap::new()
SemeruListOk ==
    /\ vendor = "semeru" /\ bpc = "start"
    /\ bpc' = "ga" /\ idx' = 1 /\ output' = EmptyMap
    /\ UNCHANGED <<vendor, available, called, ret, cmpVars, fetchVars, legacyVars>>

\* semeru::get_releases, one turn of the loop over available.available_releases
SemeruGa ==
    /\ vendor = "semeru" /\ bpc = "ga"
    /\ idx <= Len(available.available_releases)
    /\ LET version == available.available_releases[idx] IN
       \E resp \in BuildResponses(version, "ga") :
          LET r == SemeruGetRelease(resp) IN
          /\ called' = Append(called, Call(version, "ga", r))
          /\ IF r.tag = "Err"
             THEN /\ bpc' = "failed"
                  /\ ret' = WithContext(r, "Failed to get version from the semeru archive",
                                        version)
                  /\ UNCHANGED <<idx, output>>
             ELSE /\ output' = Insert(output, version, r.value)
                  /\ idx' = idx + 1
                  /\ UNCHANGED <<bpc, ret>>
    /\ UNCHANGED <<vendor, available, cmpVars, fetchVars, legacyVars>>

\* semeru::get_releases, the loop is over and the latest version is present
SemeruReturn ==
    /\ vendor = "semeru" /\ bpc = "ga"
    /\ idx > Len(available.available_releases)
    /\ ContainsKey(output, available.most_recent_feature_version)
    /\ bpc' = "done"
    /\ ret' = Ok(output)
    /\ UNCHANGED <<vendor, available, idx, output, called, cmpVars, fetchVars, legacyVars>>

\* semeru::get_releases, the loop is over and the latest version is absent:
\* a failed EA fetch is printed to stderr and the map is returned as it is
SemeruEa ==
    /\ vendor = "semeru" /\ bpc = "ga"
    /\ idx > Len(available.available_releases)
    /\ ~ContainsKey(output, available.most_recent_feature_version)
    /\ LET version == available.most_recent_feature_version IN
       \E resp \in BuildResponses(version, "ea") :
          LET r == SemeruGetRelease(resp) IN
          /\ called' = Append(called, Call(version, "ea", r))
          /\ output' = IF r.tag = "Err" THEN output ELSE Insert(output, version, r.value)
          /\ bpc' = "done"
          /\ ret' = Ok(output')
    /\ UNCHANGED <<vendor, available, idx, cmpVars, fetchVars, legacyVars>>

-----------------------------------------------------------------------------
(* main (main.rs): the slug merge *)

\* the releases get_all_versions may return
LegacyReleases ==
    {Key(mm[1], mm[2], se, bu, <<>>, "sv0") :
        mm \in {<<11, 0>>, <<17, 0>>, <<17, 1>>}, se \in {1, 2}, bu \in {8, 12}}

\* Release::to_slug
ToSlug(r) == "1." \o ToString(r.major) \o "." \o ToString(r.minor)

\* Release::to_java_version
ToJavaVersion(r) ==
    ToString(r.major) \o "." \o ToString(r.minor) \o "." \o ToString(r.security)
        \o "+" \o ToString(r.build)

\* the package link upstream answers get_url with
Link(r) == "link/" \o ToJavaVersion(r)

\* `version > entry.0`: PartialOrd::gt through Release::partial_cmp
Gt(a, b) == ReleasePartialCmp(a, b) = "Greater"

\* Sources::add_release
AddReleaseTo(srcs, release, url) ==
    Insert(srcs, ToString(release.major),
           [major_version |-> ToString(release.major),
            version |-> ToJavaVersion(release),
            url |-> url])

LegacyIdle ==
    /\ versions = {} /\ pending = {} /\ resolved = {} /\ slugs = EmptyMap
    /\ slugsLeft = {} /\ sources = EmptyMap /\ slugsLeftB = {} /\ sourcesB = EmptyMap
    /\ lpc = "idle"

\* get_all_versions fails on its first page: main returns the error
GetAllVersionsFail ==
    /\ lpc = "start"
    /\ lpc' = "failed"
    /\ UNCHANGED <<versions, pending, resolved, slugs, slugsLeft, sources, slugsLeftB,
                   sourcesB, cmpVars, fetchVars, buildVars>>

\* get_all_versions returns the set; slugs = HashMap::new()
GetAllVersionsOk ==
    /\ lpc = "start"
    /\ lpc' = "uniq"
    /\ pending' = versions
    /\ slugs' = EmptyMap
    /\ UNCHANGED <<versions, resolved, slugsLeft, sources, slugsLeftB, sourcesB,
                   cmpVars, fetchVars, buildVars>>

\* one turn of `for version in versions`: the HashSet yields its elements in any order
Uniqueify ==
    /\ lpc = "uniq"
    /\ \E version \in pending :
       \E got \in {Ok(Link(version)), Err("Failed requesting version information")} :
          /\ pending' = pending \ {version}
          /\ IF got.tag = "Ok"
             THEN LET url == got.value
                      slug == ToSlug(version)
                      entry == IF ContainsKey(slugs, slug) THEN slugs[slug]
                               ELSE <<version, url>>
                  IN /\ slugs' = Insert(slugs, slug,
                                        IF Gt(version, entry[1]) THEN <<version, url>>
                                        ELSE entry)
                     /\ resolved' = resolved \cup {version}
             ELSE UNCHANGED <<slugs, resolved>>
    /\ UNCHANGED <<versions, slugsLeft, sources, slugsLeftB, sourcesB, lpc,
                   cmpVars, fetchVars, buildVars>>

\* the first loop is over; sources = Sources { versions: HashMap::new() }.
\* Two executions of the second loop start from the same slug map.
StartEmit ==
    /\ lpc = "uniq" /\ pending = {}
    /\ lpc' = "emit"
    /\ slugsLeft' = DOMAIN slugs /\ sources' = EmptyMap
    /\ slugsLeftB' = DOMAIN slugs /\ sourcesB' = EmptyMap
    /\ UNCHANGED <<versions, pending, resolved, slugs, cmpVars, fetchVars, buildVars>>

\* one turn of `for (_slug, (version, url)) in slugs`: the HashMap yields in any order
AddRelease ==
    /\ lpc = "emit"
    /\ \E slug \in slugsLeft :
          /\ sources' = AddReleaseTo(sources, slugs[slug][1], slugs[slug][2])
          /\ slugsLeft' = slugsLeft \ {slug}
    /\ UNCHANGED <<versions, pending, resolved, slugs, slugsLeftB, sourcesB, lpc,
                   cmpVars, fetchVars, buildVars>>

\* the same turn in a second execution of main on the same upstream answers
AddReleaseB ==
    /\ lpc = "emit"
    /\ \E slug \in slugsLeftB :
          /\ sourcesB' = AddReleaseTo(sourcesB, slugs[slug][1], slugs[slug][2])
          /\ slugsLeftB' = slugsLeftB \ {slug}
    /\ UNCHANGED <<versions, pending, resolved, slugs, slugsLeft, sources, lpc,
                   cmpVars, fetchVars, buildVars>>

\* both loops are over: the catalog is printed
PrintOutput ==
    /\ lpc = "emit" /\ slugsLeft = {} /\ slugsLeftB = {}
    /\ lpc' = "done"
    /\ UNCHANGED <<versions, pending, resolved, slugs, slugsLeft, sources, slugsLeftB,
                   sourcesB, cmpVars, fetchVars, buildVars>>

-----------------------------------------------------------------------------
(* Specifications *)

InitCmp ==
    /\ lhs \in CmpKeys /\ rhs \in CmpKeys /\ cmpResult = NoCmp
    /\ FetchIdle /\ BuildIdle /\ LegacyIdle

NextCmp == CompareRelease \/ CompareVersionData

SpecCmp == InitCmp /\ [][NextCmp]_vars

InitFetch ==
    /\ fVendor \in {"adoptium", "semeru"}
    /\ fVersion \in FeatureVersions
    /\ fType \in ReleaseTypes
    /\ fResp = TransportErr /\ fResult = NoResult
    /\ CmpIdle /\ BuildIdle /\ LegacyIdle

NextFetch == AdoptiumFetch \/ SemeruFetch

SpecFetch == InitFetch /\ [][NextFetch]_vars

InitBuild ==
    /\ vendor \in {"adoptium", "semeru"}
    /\ available \in Summaries
    /\ bpc = "start" /\ idx = 0 /\ output = EmptyMap /\ called = <<>> /\ ret = NoResult
    /\ CmpIdle /\ FetchIdle /\ LegacyIdle

NextBuild ==
    \/ AdoptiumListFail \/ AdoptiumListOk \/ AdoptiumGa \/ AdoptiumReturn \/ AdoptiumEa
    \/ SemeruListFail \/ SemeruListOk \/ SemeruGa \/ SemeruReturn \/ SemeruEa

SpecBuild == InitBuild /\ [][NextBuild]_vars

InitLegacy ==
    /\ versions \in {S \in SUBSET LegacyReleases : Cardinality(S) <= MaxCandidates}
    /\ pending = {} /\ resolved = {} /\ slugs = EmptyMap
    /\ slugsLeft = {} /\ sources = EmptyMap /\ slugsLeftB = {} /\ sourcesB = EmptyMap
    /\ lpc = "start"
    /\ CmpIdle /\ FetchIdle /\ BuildIdle

NextLegacy ==
    \/ GetAllVersionsFail \/ GetAllVersionsOk \/ Uniqueify \/ StartEmit
    \/ AddRelease \/ AddReleaseB \/ PrintOutput

SpecLegacy == InitLegacy /\ [][NextLegacy]_vars

Init == InitCmp \/ InitFetch \/ InitBuild \/ InitLegacy

Next == NextCmp \/ NextFetch \/ NextBuild \/ NextLegacy

Spec == Init /\ [][Next]_vars

-----------------------------------------------------------------------------
(* Properties *)

\* VersionOrdering as specified: major, minor, security, build, then the last
\* hyphen-delimited segment of the raw version string
VersionOrdering(a, b) ==
    IF NumCmp(a.major, b.major) # "Equal" THEN NumCmp(a.major, b.major)
    ELSE IF NumCmp(a.minor, b.minor) # "Equal" THEN NumCmp(a.minor, b.minor)
    ELSE IF NumCmp(a.security, b.security) # "Equal" THEN NumCmp(a.security, b.security)
    ELSE IF NumCmp(a.build, b.build) # "Equal" THEN NumCmp(a.build, b.build)
    ELSE StrCmp(LastSegment(a.openjdk_version), LastSegment(b.openjdk_version))

SameNumbers(a, b) ==
    a.major = b.major /\ a.minor = b.minor /\ a.security = b.security /\ a.build = b.build

\* equality of the five components of a key
FiveEqual(a, b) == SameNumbers(a, b) /\ a.openjdk_version = b.openjdk_version

\* the comparator that produced cmpResult, applied to other keys
CmpBy(a, b) ==
    IF cmpResult.by = "main" THEN ReleasePartialCmp(a, b) ELSE VersionDataPartialCmp(a, b)

\* C1: whichever comparator ran, the first of major, minor, security, build in
\* which the two keys differ decides the result by itself.
C1_NumericFieldsInOrder ==
    cmpResult.by # "none" =>
        IF lhs.major # rhs.major THEN cmpResult.ord = NumCmp(lhs.major, rhs.major)
        ELSE IF lhs.minor # rhs.minor THEN cmpResult.ord = NumCmp(lhs.minor, rhs.minor)
        ELSE IF lhs.security # rhs.security
             THEN cmpResult.ord = NumCmp(lhs.security, rhs.security)
        ELSE IF lhs.build # rhs.build THEN cmpResult.ord = NumCmp(lhs.build, rhs.build)
        ELSE TRUE

\* C2: whichever comparator ran, it answers Equal exactly for keys whose five
\* components are equal, Less one way exactly when Greater the other way, and
\* a < b and b < c give a < c for every third key c.
C2_StrictTotalOrder ==
    cmpResult.by # "none" =>
        /\ (cmpResult.ord = "Equal") <=> FiveEqual(lhs, rhs)
        /\ (cmpResult.ord = "Less") <=> (cmpResult.rev = "Greater")
        /\ (cmpResult.ord = "Greater") <=> (cmpResult.rev = "Less")
        /\ \A c \in CmpKeys :
              (cmpResult.ord = "Less" /\ CmpBy(rhs, c) = "Less") => CmpBy(lhs, c) = "Less"

\* C3: whichever comparator ran, two keys with the same major, minor, security
\* and build compare as the last hyphen-delimited segments of their raw version
\* strings do; so "" is below "beta".
C3_QualifierDecidesTies ==
    (cmpResult.by # "none" /\ SameNumbers(lhs, rhs)) =>
        cmpResult.ord = StrCmp(LastSegment(lhs.openjdk_version),
                               LastSegment(rhs.openjdk_version))

\* C4: a get_release that succeeds returns an element of the page, and no element
\* of the page is strictly greater than it under VersionOrdering.
C4_ReturnsMaximum ==
    fResult.tag = "Ok" =>
        /\ \E i \in 1..Len(fResp.page) : fResp.page[i] = fResult.value
        /\ \A i \in 1..Len(fResp.page) :
              VersionOrdering(fResult.value.version_data, fResp.page[i].version_data)
                  # "Less"

ListedVersions ==
    {available.available_releases[i] : i \in 1..Len(available.available_releases)}

\* C5: the GA fetches are made for the listed versions in list order; a failed
\* GA fetch ends the run with an error naming the version and no map; a failed
\* run returns no map; a successful run fetched every listed version and its
\* map has an entry for each.
C5_GaForEveryListedVersion ==
    /\ \A i \in 1..Len(called) :
          called[i].release_type = "ga" =>
              /\ i <= Len(available.available_releases)
              /\ called[i].version = available.available_releases[i]
              /\ called[i].result.tag = "Err" =>
                    /\ bpc = "failed"
                    /\ ret.tag = "Err"
                    /\ ret.version = called[i].version
    /\ bpc = "failed" => ret.tag = "Err"
    /\ bpc = "done" =>
          /\ ret.tag = "Ok"
          /\ \A i \in 1..Len(available.available_releases) :
                /\ called[i].release_type = "ga"
                /\ called[i].result.tag = "Ok"
                /\ available.available_releases[i] \in DOMAIN ret.value

\* C5 witness: the second listed version's GA fetch failed and the run failed
C5_SecondGaFailed ==
    /\ Len(called) = 2
    /\ called[1].release_type = "ga" /\ called[1].result.tag = "Ok"
    /\ called[2].release_type = "ga" /\ called[2].result.tag = "Err"
    /\ bpc = "failed"

LastCallIsFailedEa ==
    /\ Len(called) > 0
    /\ called[Len(called)].release_type = "ea"
    /\ called[Len(called)].result.tag = "Err"

\* the release the last GA fetch for version v answered
LastGaValue(v) ==
    LET i == CHOOSE j \in 1..Len(available.available_releases) :
                 /\ available.available_releases[j] = v
                 /\ \A k \in (j + 1)..Len(available.available_releases) :
                       available.available_releases[k] # v
    IN called[i].result.value

\* C6: after a failed EA fetch adoptium's run has failed with no map, while
\* semeru's run has succeeded with a map holding exactly the GA-resolved versions
\* and no entry for most_recent_feature_version; a successful adoptium run
\* always has most_recent_feature_version as a key.
C6_EaFailurePolicy ==
    /\ (LastCallIsFailedEa /\ vendor = "adoptium") =>
          bpc = "failed" /\ ret.tag = "Err"
    /\ (LastCallIsFailedEa /\ vendor = "semeru") =>
          /\ bpc = "done" /\ ret.tag = "Ok"
          /\ DOMAIN ret.value = ListedVersions
          /\ \A v \in ListedVersions : ret.value[v] = LastGaValue(v)
          /\ available.most_recent_feature_version \notin DOMAIN ret.value
    /\ (vendor = "adoptium" /\ bpc = "done") =>
          available.most_recent_feature_version \in DOMAIN ret.value

\* C6 witness: semeru succeeded after a failed EA fetch, without the latest version
C6_SemeruWithoutLatest ==
    /\ vendor = "semeru" /\ bpc = "done" /\ LastCallIsFailedEa
    /\ Len(available.available_releases) = 2
    /\ available.most_recent_feature_version \notin DOMAIN ret.value

EaCalls == {i \in 1..Len(called) : called[i].release_type = "ea"}

\* C7: an EA fetch is the last fetch of the run, comes after a successful GA
\* fetch of every listed version, is for most_recent_feature_version, and is made
\* only when that version is not listed; a run that succeeded made it exactly
\* when that version is not listed.
C7_EaOnlyForMissingLatest ==
    /\ \A i \in EaCalls :
          /\ i = Len(called)
          /\ i = Len(available.available_releases) + 1
          /\ called[i].version = available.most_recent_feature_version
          /\ available.most_recent_feature_version \notin ListedVersions
          /\ \A j \in 1..(i - 1) :
                /\ called[j].release_type = "ga"
                /\ called[j].result.tag = "Ok"
                /\ called[j].version = available.available_releases[j]
    /\ Cardinality(EaCalls) <= 1
    /\ bpc = "done" =>
          (EaCalls # {} <=> available.most_recent_feature_version \notin ListedVersions)

\* C7 witness: available_releases = [11, 17], most recent 21: GA(11), GA(17), EA(21)
C7_GaGaThenEa ==
    /\ available.available_releases = <<11, 17>>
    /\ available.most_recent_feature_version = 21
    /\ bpc = "done"
    /\ [i \in 1..Len(called) |-> <<called[i].version, called[i].release_type>>]
          = <<(<<11, "ga">>), (<<17, "ga">>), (<<21, "ea">>)>>

\* C8: when the transport answers an empty page (an answer, not a failure),
\* get_release returns the vendor's no-releases error, and a release it returns
\* is always an element of the page.
C8_EmptyPageIsError ==
    /\ (fResult # NoResult /\ fResp.ok /\ fResp.page = <<>>) =>
          /\ fResult.tag = "Err"
          /\ fVendor = "adoptium" =>
                fResult.msg = "Adoptium endpoint did not return any valid releases"
          /\ fVendor = "semeru" =>
                fResult.msg = "Semeru endpoint did not return any valid releases"
    /\ fResult.tag = "Ok" =>
          /\ fResp.ok
          /\ \E i \in 1..Len(fResp.page) : fResp.page[i] = fResult.value

\* C8 witness: adoptium's get_release answered an empty page with an error
C8_EmptyPageSeen ==
    /\ fVendor = "adoptium" /\ fResp.ok /\ fResp.page = <<>> /\ fResult.tag = "Err"

\* C9: once the first loop is over, the slug map has one entry for each slug of a
\* release whose URL resolved, and the entry is a release of that slug that no
\* other resolved release of the slug exceeds under VersionOrdering.
C9_SlugKeepsGreatest ==
    lpc \in {"emit", "done"} =>
        /\ DOMAIN slugs = {ToSlug(v) : v \in resolved}
        /\ \A s \in DOMAIN slugs :
              /\ slugs[s][1] \in resolved
              /\ ToSlug(slugs[s][1]) = s
              /\ \A v \in resolved :
                    ToSlug(v) = s => VersionOrdering(slugs[s][1], v) # "Less"

\* C10: two executions of main on the same upstream answers print the same
\* versions map, whatever order each visits the slug map in.
C10_SameCatalogInAnyOrder ==
    lpc = "done" => sources = sourcesB

=============================================================================
